---- MODULE Spec2Model ----
(***************************************************************************)
(* Model of the osint-ingestion scripts: the vector worker                 *)
(* (scripts/vector_worker.py), the cluster processor (scripts/cluster.py), *)
(* the embedder (lib/multilingual-embeddings/minilm_embedder.py) and the   *)
(* translator (lib/translation/translate.py).                              *)
(*                                                                         *)
(* Spec   : the run_continuous loop and the run_once mode of the vector    *)
(*          worker with the Redis queues and the events table, one         *)
(*          external call per step.                                        *)
(* SpecScan : the same loop with an empty task queue and events that fail  *)
(*          on every attempt, scheduled fairly.                            *)
(* SpecFn : the pure functions of the scripts, applied to inputs drawn     *)
(*          from bounded sets.                                             *)
(*                                                                         *)
(* Representation choices: a text is a sequence of tokens (the empty text  *)
(* is << >>); an embedding is a sequence of numbers in units of 0.1; the   *)
(* 'timestamp' field of a result message (time.time()) is left out.        *)
(***************************************************************************)
EXTENDS Integers, Sequences, FiniteSets, TLC

VARIABLES pc, taskQueue, resultQueue, db, conns, task, result, exc, iter,
          popped, lost, produced, faultsLeft, call, ret, failing, calling,
          pending, results

vars == <<pc, taskQueue, resultQueue, db, conns, task, result, exc, iter,
          popped, lost, produced, faultsLeft, call, ret, failing, calling,
          pending, results>>

workerVars == <<pc, taskQueue, resultQueue, db, conns, task, result, exc, iter,
                popped, lost, produced, faultsLeft, failing, calling, pending,
                results>>

fnVars == <<call, ret>>

(***************************************************************************)
(* Bounds of the model.                                                    *)
(***************************************************************************)
\* rows of the events table
NumEvents == 2
\* tasks the external producer enqueues in one behaviour
MaxTasks == 2
\* longest event_ids list of a batch task
MaxBatch == 1
\* failures of external calls (Redis, database, model) in one behaviour
MaxFaults == 1
\* longest event_ids list given to process_batch_embeddings on its own
FnMaxBatch == 2
\* longest vector the embedding model is taken to return
MaxModelLen == 770
\* longest input of the cluster processor
MaxItems == 3
\* largest event id given to format_cluster_results
MaxEventId == 2
\* most columns of data['features']
MaxFeatureCols == 2
\* largest cluster label of the clustering routine
MaxLabel == 1
\* largest minimum cluster size
MaxMinClusterSize == 4
\* largest sample count and feature count given to prepare_features
MaxRows == 52
MaxCols == 52
\* rows of the events table when the worker only scans (one more than the
\* scan returns)
NumScanEvents == 51
\* largest limit given on the command line of the 'once' mode, besides the
\* default
MaxOnceLimit == 1

(***************************************************************************)
(* Program constants.                                                      *)
(***************************************************************************)
\* vector_worker.py: np.zeros(768), len(embedding) < 768
TargetDim == 768
\* vector_worker.py: self.embedding_dim = 384 (the dimension of MiniLM-L6)
EmbeddingDim == 384
\* vector_worker.py: find_events_without_embeddings(50)
ScanLimit == 50
\* minilm_embedder.py: [0.1] * 384, [0.0] * 384, the dimension of the
\* paraphrase-multilingual-MiniLM-L12-v2 model
MockDim == 384
\* vector_worker.py: run_once(self, limit=100)
DefaultLimit == 100
\* cluster.py: n_components=50
NComponents == 50

(***************************************************************************)
(* Small helpers.                                                          *)
(***************************************************************************)
SeqsUpTo(S, n) == UNION {[1..k -> S] : k \in 0..n}

Min(a, b) == IF a < b THEN a ELSE b

Range(s) == {s[i] : i \in 1..Len(s)}

(***************************************************************************)
(* The events table.  Row e has id e; a larger id is a newer row           *)
(* (created_at).  The text columns never change; db holds the embedding    *)
(* column.                                                                 *)
(***************************************************************************)
Events == 1..NumEvents

\* the rows of the table of the scanning worker
ScanEvents == 1..NumScanEvents

\* an id no row of the table has
UnknownId == NumEvents + 1

TaskEventIds == 1..UnknownId

\* the text columns of row e: the newest row has every text column empty
EventRow(e) ==
  IF e = NumEvents
    THEN [enhanced_headline |-> <<>>, summary |-> <<>>, primary_actors |-> <<>>,
          location_name |-> <<>>, conflict_type |-> <<>>]
    ELSE [enhanced_headline |-> <<"headline">>, summary |-> <<"summary">>,
          primary_actors |-> <<"actor1", "actor2">>,
          location_name |-> <<>>, conflict_type |-> <<"clash">>]

Null == [isnull |-> TRUE, v |-> <<>>]

Stored(v) == [isnull |-> FALSE, v |-> v]

\* sep.join(parts) for a sequence of token sequences
RECURSIVE join(_, _)
join(sep, parts) ==
  IF parts = <<>> THEN <<>>
  ELSE IF Len(parts) = 1 THEN parts[1]
  ELSE parts[1] \o sep \o join(sep, Tail(parts))

\* filter(None, parts): the non-empty parts, in order
RECURSIVE filter_none(_)
filter_none(parts) ==
  IF parts = <<>> THEN <<>>
  ELSE IF Head(parts) = <<>> THEN filter_none(Tail(parts))
  ELSE <<Head(parts)>> \o filter_none(Tail(parts))

\* ' | '.join(filter(None, text_parts)) of process_event_embedding
combined_text(event) ==
  LET actors == IF event.primary_actors # <<>>
                  THEN join(<<" ">>, [i \in 1..Len(event.primary_actors) |->
                                        <<event.primary_actors[i]>>])
                  ELSE <<>>
      text_parts == <<event.enhanced_headline, event.summary, actors,
                      event.location_name, event.conflict_type>>
  IN join(<<" | ">>, filter_none(text_parts))

(***************************************************************************)
(* Embedding generation.                                                   *)
(***************************************************************************)
zeros(n) == [i \in 1..n |-> 0]

\* self.model.encode(text) of the worker: a vector of embedding_dim entries
\* that depends on the text
encode(text) == [i \in 1..EmbeddingDim |-> Len(text)]

\* generate_embedding(text), with the vector the model returns for the text
generate_embedding(text, embedding) ==
  IF text = <<>> THEN zeros(TargetDim)
  ELSE IF Len(embedding) < TargetDim
    THEN [i \in 1..TargetDim |-> IF i <= Len(embedding) THEN embedding[i] ELSE 0]
    ELSE embedding

(***************************************************************************)
(* What the external calls of process_event_embedding meet.  at is the     *)
(* call that does not return: none, connect, fetch (the SELECT), embed     *)
(* (model.encode), update, commit or close (cur.close(), conn.close()).    *)
(* how is what ends it: an Exception, which the except block catches, a    *)
(* KeyboardInterrupt, which it does not catch, or the death of the         *)
(* process (SIGKILL).  rb is whether conn.rollback() in the except block   *)
(* returns or raises itself, as it does on a connection that was lost.     *)
(***************************************************************************)
NoFault == [at |-> "none", rb |-> TRUE, how |-> "Exception"]

\* the failures the except block receives
EventFaults ==
  {NoFault, [at |-> "connect", rb |-> TRUE, how |-> "Exception"]}
    \cup {[at |-> a, rb |-> r, how |-> "Exception"] :
            a \in {"fetch", "embed", "update", "commit", "close"},
            r \in BOOLEAN}

\* the events whose processing fails on every attempt, and the call that
\* raises for them
NoFailing == [events |-> {}, fault |-> NoFault]

RECURSIVE FaultCount(_)
FaultCount(faults) ==
  IF faults = <<>> THEN 0
  ELSE (IF Head(faults).at = "none" \/ Head(faults).how # "Exception"
          THEN 0 ELSE 1) + FaultCount(Tail(faults))

\* process_event_embedding is left at call f.at, conn being bound (c counts
\* it): through the except block on an Exception, past it otherwise
pee_except(d, c, f) ==
  IF f.how # "Exception"
    THEN [db |-> d, conns |-> c, next |-> "none", ret |-> FALSE,
          raised |-> TRUE, exc |-> f.how]
  ELSE IF f.rb
    THEN [db |-> d, conns |-> c - 1, next |-> "none", ret |-> FALSE,
          raised |-> FALSE, exc |-> "none"]
    ELSE [db |-> d, conns |-> c, next |-> "none", ret |-> FALSE,
          raised |-> TRUE, exc |-> "Exception"]

\* embedding = self.generate_embedding(combined_text) for each row of the
\* table (the text columns never change, so neither does this)
event_embedding ==
  [e \in Events \cup ScanEvents |->
     LET text == combined_text(EventRow(e))
     IN generate_embedding(text, encode(text))]

\* whether generate_embedding calls the model for row e: not for an empty
\* text ('if not text: return np.zeros(768).tolist()')
encode_called(e) == combined_text(EventRow(e)) # <<>>

\* the call goes through and the function goes on to its next call
pee_next(d, c, next) ==
  [db |-> d, conns |-> c, next |-> next, ret |-> FALSE, raised |-> FALSE,
   exc |-> "none"]

\* the function returns v
pee_return(d, c, v) ==
  [db |-> d, conns |-> c, next |-> "none", ret |-> v, raised |-> FALSE,
   exc |-> "none"]

\* One external call of process_event_embedding(event_id), on table d with
\* c open connections: connect (get_db_connection), fetch (the SELECT),
\* embed (model.encode), update, commit or close (cur.close(),
\* conn.close()).  f is what the call meets (a fault of another call is
\* not met).  The result is the table and the open connections after the
\* call and the code up to the next call, that next call (none when the
\* function is over), and then its return value or the exception that
\* leaves it.  The UPDATE is seen in the table when it is committed.
pee_call(d, c, event_id, at, f) ==
  IF f.at = at
    THEN IF at # "connect" THEN pee_except(d, c, f)
         ELSE IF f.how = "Exception" THEN pee_return(d, c, FALSE)
         ELSE [db |-> d, conns |-> c, next |-> "none", ret |-> FALSE,
               raised |-> TRUE, exc |-> f.how]
  ELSE IF at = "connect" THEN pee_next(d, c + 1, "fetch")
  ELSE IF at = "fetch"
    THEN IF event_id \notin DOMAIN d THEN pee_return(d, c, FALSE)
         ELSE pee_next(d, c, IF encode_called(event_id) THEN "embed"
                             ELSE "update")
  ELSE IF at = "embed" THEN pee_next(d, c, "update")
  ELSE IF at = "update" THEN pee_next(d, c, "commit")
  ELSE IF at = "commit"
    THEN pee_next([d EXCEPT ![event_id] = Stored(event_embedding[event_id])],
                  c, "close")
  ELSE pee_return(d, c - 1, TRUE)

\* process_event_embedding from call at on
RECURSIVE pee_from(_, _, _, _, _)
pee_from(d, c, event_id, at, f) ==
  LET r == pee_call(d, c, event_id, at, f)
  IN IF r.next = "none"
       THEN [db |-> r.db, conns |-> r.conns, ret |-> r.ret,
             raised |-> r.raised, exc |-> r.exc]
       ELSE pee_from(r.db, r.conns, event_id, r.next, f)

\* process_event_embedding(event_id) on table d with c open connections:
\* the table and the open connections after it, its return value, whether
\* an exception leaves it and which (exc).  A call that is not made (the
\* later calls for an event not found, the model for an empty text) meets
\* nothing.
process_event_embedding(d, c, event_id, f) ==
  pee_from(d, c, event_id, "connect", f)

\* whether the call f.at of process_event_embedding(event_id) is made on
\* table d
call_made(d, event_id, f) ==
  \/ f.at \in {"connect", "fetch"}
  \/ /\ f.at \in {"update", "commit", "close"}
     /\ event_id \in DOMAIN d
  \/ /\ f.at = "embed"
     /\ event_id \in DOMAIN d
     /\ encode_called(event_id)

RECURSIVE batch_loop(_, _, _, _, _)
batch_loop(d, c, event_ids, faults, rs) ==
  IF event_ids = <<>>
    THEN [db |-> d, conns |-> c, results |-> rs, raised |-> FALSE,
          exc |-> "none"]
    ELSE LET r == process_event_embedding(d, c, Head(event_ids), Head(faults))
         IN IF r.raised
              THEN [db |-> r.db, conns |-> r.conns, results |-> <<>>,
                    raised |-> TRUE, exc |-> r.exc]
              ELSE batch_loop(r.db, r.conns, Tail(event_ids), Tail(faults),
                              Append(rs, [event_id |-> Head(event_ids),
                                          success |-> r.ret]))

\* process_batch_embeddings(event_ids)
process_batch_embeddings(d, c, event_ids, faults) ==
  batch_loop(d, c, event_ids, faults, <<>>)

\* the ids of the rows with a NULL embedding, newest first
RECURSIVE null_ids_desc(_, _)
null_ids_desc(d, e) ==
  IF e = 0 THEN <<>>
  ELSE (IF d[e].isnull THEN <<e>> ELSE <<>>) \o null_ids_desc(d, e - 1)

\* what the calls of find_events_without_embeddings meet: the call that
\* does not return (none, connect, query or close: cur.close() and
\* conn.close() are inside the try block) and what ends it
FindFaults ==
  {[at |-> "none", how |-> "Exception"]}
    \cup {[at |-> a, how |-> h] :
            a \in {"connect", "query", "close"},
            h \in {"Exception", "KeyboardInterrupt", "SIGKILL"}}

\* One external call of find_events_without_embeddings(limit): connect,
\* query (the SELECT and fetchall) or close.  event_ids is the list fetched
\* so far.  The except block returns [] and closes nothing; exc is what
\* leaves the function uncaught.
find_call(d, c, limit, at, event_ids, f) ==
  IF f.at = at
    THEN [event_ids |-> <<>>, conns |-> c, next |-> "none",
          exc |-> IF f.how = "Exception" THEN "none" ELSE f.how]
  ELSE IF at = "connect"
    THEN [event_ids |-> <<>>, conns |-> c + 1, next |-> "query",
          exc |-> "none"]
  ELSE IF at = "query"
    THEN LET all == null_ids_desc(d, Len(d))
         IN [event_ids |-> SubSeq(all, 1, Min(limit, Len(all))), conns |-> c,
             next |-> "close", exc |-> "none"]
  ELSE [event_ids |-> event_ids, conns |-> c - 1, next |-> "none",
        exc |-> "none"]

\* find_events_without_embeddings from call at on
RECURSIVE find_from(_, _, _, _, _, _)
find_from(d, c, limit, at, event_ids, f) ==
  LET r == find_call(d, c, limit, at, event_ids, f)
  IN IF r.next = "none"
       THEN [event_ids |-> r.event_ids, conns |-> r.conns, exc |-> r.exc]
       ELSE find_from(d, r.conns, limit, r.next, r.event_ids, f)

\* find_events_without_embeddings(limit)
find_events_without_embeddings(d, c, limit, f) ==
  find_from(d, c, limit, "connect", <<>>, f)

\* the sequences of n entries of EventFaults with at most budget failures
RECURSIVE FaultSeqs(_, _)
FaultSeqs(n, budget) ==
  IF n = 0 THEN {<<>>}
  ELSE {<<NoFault>> \o fs : fs \in FaultSeqs(n - 1, budget)}
         \cup (IF budget = 0 THEN {}
               ELSE {<<f>> \o fs : f \in EventFaults \ {NoFault},
                                    fs \in FaultSeqs(n - 1, budget - 1)})

(***************************************************************************)
(* Task payloads of the 'embedding_tasks' list.  kind is what the bytes    *)
(* are: empty (the empty string), garbled (not JSON), nonobject (JSON      *)
(* that is no object, such as a list) or object.  An object has a 'type',  *)
(* an 'event_id' and an 'event_ids' value, which is a list (iterable) or   *)
(* not.  task_id numbers the payloads in production order; for an object   *)
(* it is its 'task_id' field.                                              *)
(***************************************************************************)
NoTask ==
  [kind |-> "none", task_id |-> 0, type |-> "none", event_id |-> 0,
   event_ids |-> <<>>, iterable |-> TRUE]

Payloads(tid) ==
  {[kind |-> k, task_id |-> tid, type |-> "none", event_id |-> 0,
    event_ids |-> <<>>, iterable |-> TRUE] : k \in {"empty", "garbled", "nonobject"}}
  \cup {[kind |-> "object", task_id |-> tid, type |-> "single_event", event_id |-> e,
         event_ids |-> <<>>, iterable |-> TRUE] : e \in TaskEventIds}
  \cup {[kind |-> "object", task_id |-> tid, type |-> "batch", event_id |-> 0,
         event_ids |-> ids, iterable |-> TRUE] : ids \in SeqsUpTo(TaskEventIds, MaxBatch)}
  \cup {[kind |-> "object", task_id |-> tid, type |-> "batch", event_id |-> 0,
         event_ids |-> <<>>, iterable |-> FALSE],
        [kind |-> "object", task_id |-> tid, type |-> "other", event_id |-> 0,
         event_ids |-> <<>>, iterable |-> TRUE]}

NoResult == [task_id |-> 0]

\* lpop that returns the head of the list and leaves it on the list
lpop_peek(queue) ==
  IF queue = <<>> THEN [task |-> NoTask, queue |-> queue]
  ELSE [task |-> Head(queue), queue |-> queue]

\* redis_client.lpop(queue): the head of the list, removed, or None
lpop(queue) ==
  IF queue = <<>> THEN [task |-> NoTask, queue |-> queue]
  ELSE [task |-> Head(queue), queue |-> Tail(queue)]

\* redis_client.rpush(queue, message)
rpush(queue, message) == Append(queue, message)

\* 'if task:' -- None and the empty string are false
truthy(t) == t.kind \notin {"none", "empty"}

\* the scan branch taken whatever the pop returned
after_pop_scan_always(t) == "scan"

\* the branch taken after the pop: the task branch or the scan branch
after_pop(t) == IF truthy(t) THEN "handle" ELSE "scan"

\* json.loads(task) followed by task_data.get: raises unless the payload is
\* a JSON object
json_loads(t) == [raises |-> t.kind # "object", task_data |-> t]

\* a loop that ends on every exception
on_exception_always_stops(e) == "stopped"

\* the except clauses of run_continuous: where the loop goes on exception e
on_exception(e) == IF e = "KeyboardInterrupt" THEN "stopped" ELSE "backoff"

\* the result message of a single_event task
single_result(task_data, success) ==
  [task_id |-> task_data.task_id, event_id |-> task_data.event_id,
   success |-> success]

\* the result message of a batch task
batch_result(task_data, rs) ==
  [task_id |-> task_data.task_id, results |-> rs]

\* a loop with no branch for batch tasks
known_type_single_only(type) == type = "single_event"

\* whether run_continuous has a branch for the task type
known_type(type) == type \in {"single_event", "batch"}

TaskIdsOf(queue) == {queue[i].task_id : i \in 1..Len(queue)}

\* the number of messages of a queue that carry task id tid
ResultsFor(queue, tid) ==
  Cardinality({i \in 1..Len(queue) : queue[i].task_id = tid})

(***************************************************************************)
(* The worker is one sequential process; the producer, and whoever reads   *)
(* the table or the lists, act between any two of its external calls       *)
(* (Redis, database, model).  pc is where the loop is, and inside          *)
(* find_events_without_embeddings and process_event_embedding calling is   *)
(* the external call about to be made.  Between an iteration's steps the   *)
(* model keeps what the iteration has done so far: the task popped         *)
(* (task), the result message built (result), the exception being handled  *)
(* (exc), whether the scan ran and found events (iter), the event ids the  *)
(* for loop of process_batch_embeddings has still to process, the current  *)
(* one first (pending; inside find_events_without_embeddings the ids       *)
(* fetched), and the result list built so far (results).  The step that    *)
(* ends an iteration clears them: the next iteration overwrites each       *)
(* before reading it.                                                      *)
(***************************************************************************)
IterStart == [scanned |-> FALSE, found |-> FALSE]

\* no database function is running
NoCall == [fn |-> "none", at |-> "none", limit |-> 0]

\* find_events_without_embeddings(limit) is about to make call at
FindAt(at, limit) ==
  [fn |-> "find_events_without_embeddings", at |-> at, limit |-> limit]

\* process_event_embedding(Head(pending)) is about to make call at
EventAt(at) == [fn |-> "process_event_embedding", at |-> at, limit |-> 0]

Init ==
  /\ pc \in {"pop", "once"}
  /\ taskQueue = <<>>
  /\ resultQueue = <<>>
  /\ db = [e \in Events |-> Null]
  /\ conns = 0
  /\ task = NoTask
  /\ result = NoResult
  /\ exc = "none"
  /\ iter = IterStart
  /\ popped = {}
  /\ lost = {}
  /\ produced = 0
  /\ faultsLeft = MaxFaults
  /\ failing = NoFailing
  /\ calling = NoCall
  /\ pending = <<>>
  /\ results = <<>>
  /\ call = [op |-> "none"]
  /\ ret = [op |-> "none"]

\* an exception other than an interrupt reaches the except clauses
Raise ==
  /\ exc' = "Exception"
  /\ pc' = on_exception("Exception")

\* the iteration is over: back to the top of the while loop
EndIteration ==
  /\ pc' = "pop"
  /\ task' = NoTask
  /\ result' = NoResult
  /\ exc' = "none"
  /\ iter' = IterStart

\* the in-flight task, if any, is in neither queue
LoseTask ==
  lost' = IF pc \in {"handle", "push"} THEN lost \cup {task.task_id} ELSE lost

\* the frames of the database functions are gone
Unwind ==
  /\ calling' = NoCall
  /\ pending' = <<>>
  /\ results' = <<>>

\* what call at of process_event_embedding(event_id) can meet: the failure
\* of an event that fails on every attempt, or else nothing or one of the
\* failures left in the behaviour
Meets(event_id, at) ==
  IF event_id \in failing.events /\ failing.fault.at = at
    THEN {failing.fault}
    ELSE {NoFault} \cup {f \in EventFaults : f.at = at /\ faultsLeft > 0}

\* what call at of find_events_without_embeddings can meet
FindMeets(at) ==
  {f \in FindFaults : /\ f.how = "Exception"
                      /\ f.at \in {"none", at}
                      /\ f.at # "none" => faultsLeft > 0}

\* the failures of the behaviour that f uses up
Spent(event_id, f) ==
  IF f.at = "none" \/ event_id \in failing.events THEN 0 ELSE 1

\* an external producer pushes a task
Produce ==
  /\ produced < MaxTasks
  /\ \E p \in Payloads(produced + 1) : taskQueue' = rpush(taskQueue, p)
  /\ produced' = produced + 1
  /\ UNCHANGED <<pc, resultQueue, db, conns, task, result, exc, iter, popped,
                 lost, faultsLeft, call, ret, failing, calling, pending,
                 results>>

\* task = self.redis_client.lpop(self.task_queue); if task:
Pop ==
  /\ pc = "pop"
  /\ \/ /\ faultsLeft > 0
        /\ faultsLeft' = faultsLeft - 1
        /\ Raise
        /\ UNCHANGED <<taskQueue, task, popped, lost>>
     \/ LET r == lpop(taskQueue)
        IN /\ task' = r.task
           /\ taskQueue' = r.queue
           /\ popped' = IF r.task.kind = "none" THEN popped
                        ELSE popped \cup {r.task.task_id}
           /\ lost' = IF r.task.kind = "empty" THEN lost \cup {r.task.task_id}
                      ELSE lost
           /\ pc' = after_pop(r.task)
           /\ UNCHANGED <<exc, faultsLeft>>
  /\ UNCHANGED <<resultQueue, db, conns, result, iter, produced, call, ret,
                 failing, calling, pending, results>>

\* the 'if task:' branch up to the first database call:
\* task_data = json.loads(task), the test of the type, and the entry of
\* process_event_embedding or process_batch_embeddings
Handle ==
  /\ pc = "handle"
  /\ calling = NoCall
  /\ LET parsed == json_loads(task)
         td == parsed.task_data
     IN \/ /\ parsed.raises \/ (td.type = "batch" /\ ~td.iterable)
           /\ Raise
           /\ LoseTask
           /\ UNCHANGED <<task, result, iter, calling, pending>>
        \/ /\ ~parsed.raises
           /\ td.type = "single_event"
           /\ calling' = EventAt("connect")
           /\ pending' = <<td.event_id>>
           /\ UNCHANGED <<pc, task, result, exc, iter, lost>>
        \/ /\ ~parsed.raises
           /\ td.type = "batch"
           /\ td.iterable
           /\ IF td.event_ids = <<>>
                THEN /\ result' = batch_result(td, <<>>)
                     /\ pc' = "push"
                     /\ UNCHANGED <<calling, pending>>
                ELSE /\ calling' = EventAt("connect")
                     /\ pending' = td.event_ids
                     /\ UNCHANGED <<pc, result>>
           /\ UNCHANGED <<task, exc, iter, lost>>
        \/ /\ ~parsed.raises
           /\ ~known_type(td.type)
           /\ EndIteration
           /\ LoseTask
           /\ UNCHANGED <<calling, pending>>
  /\ UNCHANGED <<taskQueue, resultQueue, db, conns, popped, produced,
                 faultsLeft, call, ret, failing, results>>

\* self.redis_client.rpush(self.result_queue, json.dumps(result))
Push ==
  /\ pc = "push"
  /\ \/ /\ faultsLeft > 0
        /\ faultsLeft' = faultsLeft - 1
        /\ Raise
        /\ LoseTask
        /\ UNCHANGED <<resultQueue, task, result, iter>>
     \/ /\ resultQueue' = rpush(resultQueue, result)
        /\ EndIteration
        /\ UNCHANGED <<lost, faultsLeft>>
  /\ UNCHANGED <<taskQueue, db, conns, popped, produced, call, ret,
                 failing, calling, pending, results>>

\* the else branch: event_ids = self.find_events_without_embeddings(50) is
\* entered
Scan ==
  /\ pc = "scan"
  /\ calling = NoCall
  /\ calling' = FindAt("connect", ScanLimit)
  /\ iter' = [scanned |-> TRUE, found |-> FALSE]
  /\ UNCHANGED <<pc, taskQueue, resultQueue, db, conns, task, result, exc,
                 popped, lost, produced, faultsLeft, call, ret, failing,
                 pending, results>>

\* run_once(limit), the 'once' mode of main(): one scan and one batch, no
\* queue and no sleep; find_events_without_embeddings(limit) is entered
RunOnce ==
  /\ pc = "once"
  /\ calling = NoCall
  /\ \E limit \in (1..MaxOnceLimit) \cup {DefaultLimit} :
       calling' = FindAt("connect", limit)
  /\ UNCHANGED <<pc, taskQueue, resultQueue, db, conns, task, result, exc,
                 iter, popped, lost, produced, faultsLeft, call, ret, failing,
                 pending, results>>

\* one external call of find_events_without_embeddings and the code up to
\* the next call; when it returns, 'if event_ids:' of run_continuous
\* ('if not event_ids:' of run_once) and the entry of
\* process_batch_embeddings
FindStep ==
  /\ calling.fn = "find_events_without_embeddings"
  /\ \E f \in FindMeets(calling.at) :
       LET r == find_call(db, conns, calling.limit, calling.at, pending, f)
       IN /\ faultsLeft' = faultsLeft - (IF f.at = "none" THEN 0 ELSE 1)
          /\ conns' = r.conns
          /\ IF r.next # "none"
               THEN /\ calling' = FindAt(r.next, calling.limit)
                    /\ pending' = r.event_ids
                    /\ UNCHANGED <<pc, iter>>
             ELSE IF r.event_ids # <<>>
               THEN /\ calling' = EventAt("connect")
                    /\ pending' = r.event_ids
                    /\ iter' = IF pc = "scan"
                                 THEN [scanned |-> TRUE, found |-> TRUE]
                                 ELSE iter
                    /\ UNCHANGED pc
               ELSE /\ calling' = NoCall
                    /\ pending' = <<>>
                    /\ pc' = IF pc = "scan" THEN "sleep" ELSE "done"
                    /\ UNCHANGED iter
  /\ UNCHANGED <<taskQueue, resultQueue, db, task, result, exc, popped, lost,
                 produced, call, ret, failing, results>>

\* process_event_embedding or process_batch_embeddings has returned rs to
\* run_continuous (the task branch builds the result message, the scan
\* branch ends the iteration) or to run_once (which logs the count)
Returned(rs) ==
  /\ Unwind
  /\ IF pc = "handle"
       THEN /\ result' = IF task.type = "single_event"
                           THEN single_result(task, rs[1].success)
                           ELSE batch_result(task, rs)
            /\ pc' = "push"
            /\ UNCHANGED <<task, exc, iter>>
     ELSE IF pc = "scan"
       THEN EndIteration
       ELSE /\ pc' = "completed"
            /\ UNCHANGED <<task, result, exc, iter>>

\* an exception leaves process_event_embedding: it reaches the except
\* clauses of run_continuous, or leaves run_once and main()
Escapes ==
  /\ Unwind
  /\ IF pc = "once" THEN pc' = "crashed" /\ UNCHANGED exc ELSE Raise
  /\ LoseTask
  /\ UNCHANGED <<task, result, iter>>

\* one external call of process_event_embedding(Head(pending)) and the
\* code up to the next call; when it returns, results.append(...) and the
\* next turn of the for loop of process_batch_embeddings
EventStep ==
  /\ calling.fn = "process_event_embedding"
  /\ \E f \in Meets(Head(pending), calling.at) :
       LET r == pee_call(db, conns, Head(pending), calling.at, f)
           rs == Append(results, [event_id |-> Head(pending),
                                  success |-> r.ret])
       IN /\ faultsLeft' = faultsLeft - Spent(Head(pending), f)
          /\ db' = r.db
          /\ conns' = r.conns
          /\ IF r.raised
               THEN Escapes
             ELSE IF r.next # "none"
               THEN /\ calling' = EventAt(r.next)
                    /\ UNCHANGED <<pc, task, result, exc, iter, lost, pending,
                                   results>>
             ELSE IF Tail(pending) # <<>>
               THEN /\ calling' = EventAt("connect")
                    /\ pending' = Tail(pending)
                    /\ results' = rs
                    /\ UNCHANGED <<pc, task, result, exc, iter, lost>>
               ELSE Returned(rs) /\ UNCHANGED lost
  /\ UNCHANGED <<taskQueue, resultQueue, popped, produced, call, ret, failing>>

\* run_once returns after logging 'Completed: n/m successful'
Completed ==
  /\ pc = "completed"
  /\ pc' = "done"
  /\ UNCHANGED <<taskQueue, resultQueue, db, conns, task, result, exc, iter,
                 popped, lost, produced, faultsLeft, call, ret, failing,
                 calling, pending, results>>

\* time.sleep(10): no work to do
Sleep ==
  /\ pc = "sleep"
  /\ EndIteration
  /\ UNCHANGED <<taskQueue, resultQueue, db, conns, popped, lost, produced,
                 faultsLeft, call, ret, failing, calling, pending, results>>

\* except Exception: logger.error(...); time.sleep(5)
Backoff ==
  /\ pc = "backoff"
  /\ EndIteration
  /\ UNCHANGED <<taskQueue, resultQueue, db, conns, popped, lost, produced,
                 faultsLeft, call, ret, failing, calling, pending, results>>

\* KeyboardInterrupt, at any point: in run_continuous it is caught inside
\* the try block (break) and leaves run_continuous uncaught when it
\* arrives during the back-off sleep; the except blocks of the database
\* functions do not catch it, so what they opened stays open.  In the
\* 'once' mode nothing catches it and it ends the process.
Interrupt ==
  /\ pc \in {"pop", "handle", "push", "scan", "sleep", "backoff", "once",
             "completed"}
  /\ exc' = "KeyboardInterrupt"
  /\ pc' = IF pc \in {"once", "completed"} THEN "crashed"
           ELSE IF pc = "backoff" THEN "stopped"
           ELSE on_exception("KeyboardInterrupt")
  /\ LoseTask
  /\ Unwind
  /\ UNCHANGED <<taskQueue, resultQueue, db, conns, task, result, iter, popped,
                 produced, faultsLeft, call, ret, failing>>

\* the process dies (killed, out of memory, power loss), at any point
Crash ==
  /\ pc \in {"pop", "handle", "push", "scan", "sleep", "backoff", "once",
             "completed"}
  /\ pc' = "crashed"
  /\ LoseTask
  /\ Unwind
  /\ UNCHANGED <<taskQueue, resultQueue, db, conns, task, result, exc, iter,
                 popped, produced, faultsLeft, call, ret, failing>>

Next ==
  \/ Produce
  \/ Pop
  \/ Handle
  \/ Push
  \/ Scan
  \/ RunOnce
  \/ FindStep
  \/ EventStep
  \/ Completed
  \/ Sleep
  \/ Backoff
  \/ Interrupt
  \/ Crash

Spec == Init /\ [][Next]_vars

(***************************************************************************)
(* SpecScan: run_continuous with the task queue staying empty, on a table  *)
(* of NumScanEvents rows that all lack an embedding.  failing holds the    *)
(* events for which a call raises whenever it is made, and that call;      *)
(* process_event_embedding reports such a failure by returning False (the  *)
(* rollback returns), so no exception reaches the loop.  The other calls   *)
(* (Redis, connect, the scan's query) succeed.                             *)
(***************************************************************************)
\* the failures of an event that fails on every attempt (the model is not
\* called for an event with an empty text, which therefore cannot fail there)
FailingFaults ==
  {[at |-> a, rb |-> TRUE, how |-> "Exception"] :
     a \in {"fetch", "embed", "update", "commit"}}

\* the k newest rows of the table
NewestEvents(k) == {e \in ScanEvents : e > NumScanEvents - k}

InitScan ==
  /\ pc = "pop"
  /\ taskQueue = <<>>
  /\ resultQueue = <<>>
  /\ db = [e \in ScanEvents |-> Null]
  /\ conns = 0
  /\ task = NoTask
  /\ result = NoResult
  /\ exc = "none"
  /\ iter = IterStart
  /\ popped = {}
  /\ lost = {}
  /\ produced = 0
  /\ faultsLeft = 0
  /\ failing \in {[events |-> NewestEvents(k), fault |-> f] :
                     k \in 0..NumScanEvents, f \in FailingFaults}
  /\ calling = NoCall
  /\ pending = <<>>
  /\ results = <<>>
  /\ call = [op |-> "none"]
  /\ ret = [op |-> "none"]

NextScan ==
  \/ Pop
  \/ Scan
  \/ FindStep
  \/ EventStep
  \/ Sleep

\* the loop is one sequential process that runs on: a step it can take it
\* eventually takes
SpecScan == InitScan /\ [][NextScan]_vars /\ WF_vars(NextScan)

(***************************************************************************)
(* The cluster processor (scripts/cluster.py).  A feature matrix is        *)
(* modelled by its shape: the claims about it depend on the sample count   *)
(* and the feature count only.                                             *)
(***************************************************************************)
\* PCA(n_components=n).fit_transform on a rows x cols matrix (scikit-learn):
\* a ValueError unless n <= min(rows, cols), else a rows x n matrix
pca_fit_transform(rows, cols, n) ==
  IF n > Min(rows, cols)
    THEN [rows |-> rows, cols |-> cols, raised |-> TRUE]
    ELSE [rows |-> rows, cols |-> n, raised |-> FALSE]

\* prepare_features(data, use_pca, n_components): vectors is rows x vcols,
\* data['features'] is rows x fcols (fcols = 0: no features given)
prepare_features(rows, vcols, fcols, use_pca, n_components) ==
  LET cols == IF fcols > 0 /\ rows > 0 THEN vcols + fcols ELSE vcols
  IN IF use_pca /\ rows > n_components
       THEN LET r == pca_fit_transform(rows, cols, n_components)
            IN [rows |-> r.rows, cols |-> r.cols, pca_attempted |-> TRUE,
                raised |-> r.raised]
       ELSE [rows |-> rows, cols |-> cols, pca_attempted |-> FALSE,
             raised |-> FALSE]

\* cluster_events whose edge case is off by one
cluster_events_off_by_one(n, min_cluster_size, hdbscan_labels) ==
  IF n + 1 < min_cluster_size
    THEN [labels |-> [i \in 1..n |-> -1], hdbscan_called |-> FALSE]
    ELSE [labels |-> hdbscan_labels, hdbscan_called |-> TRUE]

\* cluster_events(features, min_cluster_size, ...) for features of n rows;
\* hdbscan_labels is what clusterer.fit_predict(features) returns
cluster_events(n, min_cluster_size, hdbscan_labels) ==
  IF n < min_cluster_size
    THEN [labels |-> [i \in 1..n |-> -1], hdbscan_called |-> FALSE]
    ELSE [labels |-> hdbscan_labels, hdbscan_called |-> TRUE]

\* add_to_cluster without the 'if label not in clusters' test
add_to_cluster_always_new(clusters, label, event_id) ==
  Append(clusters, [label |-> label, event_ids |-> <<event_id>>])

\* clusters[label].append(event_id), clusters keeping the order in which
\* the labels were first seen
add_to_cluster(clusters, label, event_id) ==
  IF \E j \in 1..Len(clusters) : clusters[j].label = label
    THEN [j \in 1..Len(clusters) |->
            IF clusters[j].label = label
              THEN [clusters[j] EXCEPT !.event_ids = Append(@, event_id)]
              ELSE clusters[j]]
    ELSE Append(clusters, [label |-> label, event_ids |-> <<event_id>>])

\* the first loop of format_cluster_results, from item i on
RECURSIVE fcr_loop(_, _, _, _, _)
fcr_loop(event_ids, labels, i, n, acc) ==
  IF i > n THEN acc
  ELSE IF labels[i] = -1
    THEN fcr_loop(event_ids, labels, i + 1, n,
                  [acc EXCEPT !.noise_count = @ + 1])
    ELSE fcr_loop(event_ids, labels, i + 1, n,
                  [acc EXCEPT !.clustered_count = @ + 1,
                              !.clusters = add_to_cluster(@, labels[i],
                                                          event_ids[i])])

\* format_cluster_results(event_ids, labels); zip stops at the shorter list
format_cluster_results(event_ids, labels) ==
  LET acc == fcr_loop(event_ids, labels, 1, Min(Len(event_ids), Len(labels)),
                      [clusters |-> <<>>, clustered_count |-> 0,
                       noise_count |-> 0])
  IN [clusters |-> [j \in 1..Len(acc.clusters) |->
                      [cluster_id |-> acc.clusters[j].label,
                       event_ids |-> acc.clusters[j].event_ids,
                       size |-> Len(acc.clusters[j].event_ids)]],
      clustered_count |-> acc.clustered_count,
      noise_count |-> acc.noise_count]

(***************************************************************************)
(* The embedder (lib/multilingual-embeddings/minilm_embedder.py).          *)
(***************************************************************************)
\* embed_text(text, language): MODEL_AVAILABLE, whether the model call
\* raises, and the vector it returns otherwise, are given.  "" is None.
embed_text(text, language, model_available, model_raises, model_out) ==
  IF ~model_available
    THEN [embedding |-> [i \in 1..MockDim |-> 1],
          model |-> "mock-multilingual-minilm",
          language |-> IF language # "" THEN language ELSE "unknown"]
  ELSE IF model_raises
    THEN [error |-> "error", embedding |-> [i \in 1..MockDim |-> 0]]
  ELSE [embedding |-> model_out,
        model |-> "paraphrase-multilingual-MiniLM-L12-v2",
        language |-> IF language # "" THEN language ELSE "auto"]

(***************************************************************************)
(* The translator (lib/translation/translate.py).                          *)
(***************************************************************************)
\* the codes langdetect returns in the model: five that lang_map holds and
\* one it does not
LangCodes == {"en", "es", "ru", "zh-cn", "zh-tw", "nl"}

\* lang_map.get(lang, lang)
lang_map(lang) ==
  IF lang \in {"zh-cn", "zh-tw"} THEN "zh" ELSE lang

\* detect_language(text): detect(text) returns a code or raises
\* LangDetectException
detect_language(text, detect_raises, detected) ==
  IF detect_raises THEN "en" ELSE lang_map(detected)

\* translate_to_english without the test for English
translate_to_english_no_en_test(text, source_lang, translate_raises, translation) ==
  IF translate_raises THEN [text |-> text, translated |-> FALSE]
  ELSE [text |-> translation, translated |-> TRUE]

\* translate_to_english(text, source_lang): the translation call raises or
\* returns translation
translate_to_english(text, source_lang, translate_raises, translation) ==
  IF source_lang = "en" THEN [text |-> text, translated |-> FALSE]
  ELSE IF translate_raises THEN [text |-> text, translated |-> FALSE]
  ELSE [text |-> translation, translated |-> TRUE]

\* detect_and_translate(text)
detect_and_translate(text, detect_raises, detected, translate_raises, translation) ==
  LET source_lang == detect_language(text, detect_raises, detected)
      t == translate_to_english(text, source_lang, translate_raises, translation)
  IN [original_text |-> text, translated_text |-> t.text,
      original_language |-> source_lang, translated |-> t.translated]

(***************************************************************************)
(* SpecFn: each action calls one function on inputs drawn from bounded     *)
(* sets, once in a behaviour; call holds the inputs and ret what the       *)
(* function returned.                                                      *)
(***************************************************************************)
\* an embedding stored before the worker ran
OldEmbedding == Stored([i \in 1..TargetDim |-> 9])

Texts == {<<>>, <<"bonjour">>}

ModelVector(n) == [i \in 1..n |-> 1]

Call_process_batch_embeddings ==
  /\ call.op = "none"
  /\ \E d \in [Events -> {Null, OldEmbedding}],
     event_ids \in SeqsUpTo(TaskEventIds, FnMaxBatch) :
    \E faults \in [1..Len(event_ids) -> EventFaults] :
      /\ FaultCount(faults) <= MaxFaults
      /\ call' = [op |-> "process_batch_embeddings", db |-> d,
                  event_ids |-> event_ids, faults |-> faults]
      /\ ret' = process_batch_embeddings(d, 0, event_ids, faults)
      /\ UNCHANGED workerVars

Call_prepare_features ==
  /\ call.op = "none"
  /\ \E rows \in 0..MaxRows, vcols \in 1..MaxCols, fcols \in 0..MaxFeatureCols,
     use_pca \in BOOLEAN :
    /\ call' = [op |-> "prepare_features", rows |-> rows, vcols |-> vcols,
                fcols |-> fcols, use_pca |-> use_pca,
                n_components |-> NComponents]
    /\ ret' = prepare_features(rows, vcols, fcols, use_pca, NComponents)
    /\ UNCHANGED workerVars

Call_cluster_events ==
  /\ call.op = "none"
  /\ \E n \in 0..MaxItems, min_cluster_size \in 0..MaxMinClusterSize :
    \E hdbscan_labels \in [1..n -> -1..MaxLabel] :
      /\ call' = [op |-> "cluster_events", n |-> n,
                  min_cluster_size |-> min_cluster_size,
                  hdbscan_labels |-> hdbscan_labels]
      /\ ret' = cluster_events(n, min_cluster_size, hdbscan_labels)
      /\ UNCHANGED workerVars

Call_format_cluster_results ==
  /\ call.op = "none"
  /\ \E n \in 0..MaxItems :
    \E event_ids \in [1..n -> 1..MaxEventId], labels \in [1..n -> -1..MaxLabel] :
      /\ call' = [op |-> "format_cluster_results", event_ids |-> event_ids,
                  labels |-> labels]
      /\ ret' = format_cluster_results(event_ids, labels)
      /\ UNCHANGED workerVars

\* what self.model.encode can return: the vector of the configured model,
\* or a vector of any other length
ModelOutputs(text) ==
  {encode(text)} \cup {ModelVector(n) : n \in 0..MaxModelLen}

Call_generate_embedding ==
  /\ call.op = "none"
  /\ \E text \in Texts :
       \E model_out \in ModelOutputs(text) :
         /\ call' = [op |-> "generate_embedding", text |-> text,
                     model_out |-> model_out]
         /\ ret' = [embedding |-> generate_embedding(text, model_out)]
         /\ UNCHANGED workerVars

Call_embed_text ==
  /\ call.op = "none"
  /\ \E text \in Texts, language \in {"", "fr"}, model_available \in BOOLEAN,
     model_raises \in BOOLEAN, n \in 0..MaxModelLen :
    /\ call' = [op |-> "embed_text", text |-> text, language |-> language,
                model_available |-> model_available,
                model_raises |-> model_raises,
                model_out |-> ModelVector(n)]
    /\ ret' = embed_text(text, language, model_available, model_raises,
                         ModelVector(n))
    /\ UNCHANGED workerVars

Call_detect_and_translate ==
  /\ call.op = "none"
  /\ \E text \in Texts, detect_raises \in BOOLEAN, detected \in LangCodes,
     translate_raises \in BOOLEAN :
    \E translation \in {<<"hello">>, text} :
      /\ call' = [op |-> "detect_and_translate", text |-> text,
                  detect_raises |-> detect_raises, detected |-> detected,
                  translate_raises |-> translate_raises,
                  translation |-> translation]
      /\ ret' = detect_and_translate(text, detect_raises, detected,
                                     translate_raises, translation)
      /\ UNCHANGED workerVars

NextFn ==
  \/ Call_process_batch_embeddings
  \/ Call_prepare_features
  \/ Call_cluster_events
  \/ Call_format_cluster_results
  \/ Call_generate_embedding
  \/ Call_embed_text
  \/ Call_detect_and_translate

SpecFn == Init /\ [][NextFn]_vars

(***************************************************************************)
(* Steps of the loop, as the claims name them.                             *)
(***************************************************************************)
\* the step that ends an iteration in which a payload was popped
EndsTaskIteration == pc # "pop" /\ pc' = "pop" /\ task.kind # "none"

\* the database scan starts
ScanStep == pc = "scan" /\ calling = NoCall /\ calling' # NoCall

\* time.sleep(10) returns
IdleSleepStep == pc = "sleep" /\ pc' = "pop"

\* time.sleep(5) returns
BackoffSleepStep == pc = "backoff" /\ pc' = "pop"

(***************************************************************************)
(* C1 as stated: every task popped from 'embedding_tasks' is followed,     *)
(* before the next pop, by exactly one result message on                   *)
(* 'embedding_results' that carries its task_id, whatever its type and     *)
(* whether or not it is well-formed JSON (stated for the non-empty         *)
(* payloads, which the loop takes as tasks).  Violated: a payload of       *)
(* another type, or one that does not decode, gets no result.              *)
(***************************************************************************)
C1_EveryPoppedTaskGetsOneResult ==
  [][(EndsTaskIteration /\ truthy(task)) =>
       /\ ResultsFor(resultQueue', task.task_id) = 1
       /\ Len(resultQueue') = Len(resultQueue) + 1]_vars

(***************************************************************************)
(* C1 amended: a popped payload that is a JSON object of type single_event *)
(* or batch gets exactly one result, carrying its task_id, pushed before   *)
(* the next pop, unless an exception is raised in the iteration; in that   *)
(* case, and for every other payload (empty, not JSON, not an object,      *)
(* another type), no result is pushed.  Results are pushed by no other     *)
(* step.                                                                   *)
(***************************************************************************)
C1_ResultIffHandled ==
  [][/\ EndsTaskIteration =>
          IF task.kind = "object" /\ task.type \in {"single_event", "batch"}
             /\ exc = "none"
            THEN /\ Len(resultQueue') = Len(resultQueue) + 1
                 /\ SubSeq(resultQueue', 1, Len(resultQueue)) = resultQueue
                 /\ resultQueue'[Len(resultQueue')].task_id = task.task_id
                 /\ ResultsFor(resultQueue', task.task_id) = 1
            ELSE /\ resultQueue' = resultQueue
                 /\ ResultsFor(resultQueue, task.task_id) = 0
     /\ resultQueue' # resultQueue => EndsTaskIteration]_vars

\* C1 witness: a batch task was popped and its result is on the result queue
C1_Witness ==
  /\ pc = "pop"
  /\ \E i \in 1..Len(resultQueue) :
       /\ resultQueue[i].task_id \in popped
       /\ "results" \in DOMAIN resultQueue[i]
       /\ Len(resultQueue[i].results) = 1

(***************************************************************************)
(* C3: the loop never ends because of an exception other than an           *)
(* interrupt.  An exception raised in an iteration leads to the except     *)
(* clause that logs and sleeps (backoff); from there the loop goes to the  *)
(* next iteration, unless the process is interrupted or dies; the loop     *)
(* stops only on KeyboardInterrupt.                                        *)
(***************************************************************************)
C3_OnlyInterruptStopsLoop ==
  [][/\ (pc' = "stopped" /\ pc # "stopped") => exc' = "KeyboardInterrupt"
     /\ (exc' = "Exception" /\ exc # "Exception") => pc' = "backoff"
     /\ (pc = "backoff" /\ pc' # "backoff") => pc' \in {"pop", "stopped", "crashed"}
     /\ BackoffSleepStep => exc = "Exception"]_vars

\* C3 witness: an exception (here from decoding a payload that is not
\* JSON) was caught and the loop is in its back-off, about to go on
C3_Witness == pc = "backoff" /\ exc = "Exception" /\ task.kind = "garbled"

(***************************************************************************)
(* C4: delivery is at-most-once.  The task queue loses a task only by the  *)
(* pop, one task per iteration, and grows only by the producer; a popped   *)
(* task is never on the task queue again; no task has more than one        *)
(* result; a task whose iteration was cut between the pop and the push     *)
(* (exception, interrupt, crash) is in neither queue, ever after.          *)
(***************************************************************************)
C4_Inv ==
  /\ \A t \in popped : t \notin TaskIdsOf(taskQueue)
  /\ \A t \in 1..produced : ResultsFor(resultQueue, t) <= 1
  /\ \A t \in lost : /\ t \notin TaskIdsOf(taskQueue)
                     /\ ResultsFor(resultQueue, t) = 0

C4_Step ==
  /\ Len(taskQueue') < Len(taskQueue) =>
       /\ pc = "pop" /\ pc' # "pop"
       /\ taskQueue' = Tail(taskQueue)
       /\ task' = Head(taskQueue)
  /\ (taskQueue' # taskQueue /\ Len(taskQueue') >= Len(taskQueue)) =>
       /\ produced' = produced + 1
       /\ SubSeq(taskQueue', 1, Len(taskQueue)) = taskQueue
       /\ Len(taskQueue') = Len(taskQueue) + 1
  /\ lost \subseteq lost'
  /\ popped \subseteq popped'

C4_AtMostOnce == []C4_Inv /\ [][C4_Step]_vars

\* C4 witness: two tasks were queued, the pop took the first only, and the
\* process died between the pop and the push; the task is lost
C4_Witness ==
  /\ pc = "crashed"
  /\ taskQueue # <<>>
  /\ task.kind = "object"
  /\ result # NoResult
  /\ task.task_id \in lost
  /\ task.task_id \notin TaskIdsOf(taskQueue)
  /\ ResultsFor(resultQueue, task.task_id) = 0

(***************************************************************************)
(* C10 as stated: the scan runs only in an iteration whose pop returned    *)
(* no task; the 10-second sleep happens only in an iteration whose pop     *)
(* returned no task and whose scan returned no event; an iteration that    *)
(* found a task or found events goes to the next pop without sleeping.     *)
(* Violated: an iteration that found a task and raised sleeps 5 seconds    *)
(* in the except clause before the next pop.                               *)
(***************************************************************************)
C10_NoSleepAfterWork ==
  [][/\ ScanStep => ~truthy(task)
     /\ IdleSleepStep => ~truthy(task) /\ iter.scanned /\ ~iter.found
     /\ (pc # "pop" /\ pc' = "pop" /\ (truthy(task) \/ iter.found)) =>
          ~IdleSleepStep /\ ~BackoffSleepStep]_vars

(***************************************************************************)
(* C10 amended: the scan runs only in an iteration whose pop returned no   *)
(* task (nothing, or an empty payload); the 10-second sleep happens only   *)
(* in such an iteration whose scan returned no event (no row lacks an      *)
(* embedding, or a database call of the scan failed, its close included,   *)
(* and it returned the empty list); an iteration that found a task or      *)
(* found events goes to the next pop without the 10-second sleep, and it   *)
(* sleeps (5 seconds, in the except clause) exactly when it raised an      *)
(* exception.                                                              *)
(***************************************************************************)
C10_PopScanSleepOrder ==
  [][/\ ScanStep => ~truthy(task) /\ ~iter.scanned
     /\ (pc' = "sleep" /\ pc # "sleep") => pc = "scan" /\ iter.scanned
     /\ IdleSleepStep => ~truthy(task) /\ iter.scanned /\ ~iter.found
     /\ (pc # "pop" /\ pc' = "pop" /\ (truthy(task) \/ iter.found)) =>
          /\ ~IdleSleepStep
          /\ (BackoffSleepStep <=> exc = "Exception")]_vars

\* C10 witness: the pop returned nothing, the scan returned no event, and
\* the loop is in its 10-second sleep
C10_Witness ==
  /\ pc = "sleep"
  /\ task.kind = "none"
  /\ iter.scanned /\ ~iter.found
  /\ \A e \in Events : ~db[e].isnull

(***************************************************************************)
(* Claims about the functions (SpecFn).                                    *)
(***************************************************************************)
Occurrences(seq, x) == Cardinality({k \in 1..Len(seq) : seq[k] = x})

RECURSIVE SumSizes(_)
SumSizes(clusters) ==
  IF clusters = <<>> THEN 0 ELSE Head(clusters).size + SumSizes(Tail(clusters))

(***************************************************************************)
(* C2 as stated: process_batch_embeddings returns one {event_id, success}  *)
(* entry per input id, in input order; an event whose processing fails     *)
(* (fetch, embed, update or commit error) is reported with success false   *)
(* and the events after it are still processed; the stored embedding of    *)
(* an event changes only by that event's own successful processing.        *)
(* Stated for the failures the claim names (and the connect error); a      *)
(* row with no text is embedded without calling the model, so an embed     *)
(* error cannot fail it.  An error of cursor.close() after the commit,     *)
(* which reports False for a row that is embedded, is left out.            *)
(* Violated: when conn.rollback() raises in the except block the           *)
(* exception leaves process_event_embedding and ends the batch.            *)
(***************************************************************************)
C2_BatchIsolatesFailures ==
  (/\ call.op = "process_batch_embeddings"
   /\ \A i \in 1..Len(call.faults) : call.faults[i].at # "close") =>
    LET ids == call.event_ids
        ok(i) == /\ ids[i] \in Events
                 /\ \/ call.faults[i].at = "none"
                    \/ ~call_made(call.db, ids[i], call.faults[i])
    IN /\ ~ret.raised
       /\ Len(ret.results) = Len(ids)
       /\ \A i \in 1..Len(ids) :
            /\ ret.results[i].event_id = ids[i]
            /\ ret.results[i].success = ok(i)
       /\ \A e \in Events :
            ret.db[e] = IF \E i \in 1..Len(ids) : ids[i] = e /\ ok(i)
                          THEN Stored(event_embedding[e])
                          ELSE call.db[e]

(***************************************************************************)
(* C5: for every input whose sample count is below the minimum cluster     *)
(* size (the empty input included) cluster_events returns one label per    *)
(* item, every label -1, and does not call the clustering routine.         *)
(***************************************************************************)
C5_SmallInputAllNoise ==
  (call.op = "cluster_events" /\ call.n < call.min_cluster_size) =>
    /\ Len(ret.labels) = call.n
    /\ \A i \in 1..Len(ret.labels) : ret.labels[i] = -1
    /\ ~ret.hdbscan_called

\* C5 witness: two samples, minimum cluster size three
C5_Witness ==
  /\ call.op = "cluster_events"
  /\ call.n = 2 /\ call.min_cluster_size = 3
  /\ \E i \in 1..2 : call.hdbscan_labels[i] # -1
  /\ ret.labels = <<-1, -1>>

(***************************************************************************)
(* C6: for event ids and labels of equal length, format_cluster_results    *)
(* emits no cluster with id -1 and one cluster per other label that        *)
(* occurs; an item labelled -1 is in no cluster and an item with another   *)
(* label is in the cluster of its label, once, and in no other (items are  *)
(* counted, so the statement covers repeated event ids); each size is the  *)
(* length of the cluster's event_ids; clustered_count + noise_count is     *)
(* the number of items and clustered_count is the sum of the sizes.        *)
(***************************************************************************)
C6_FormatPartitionsItems ==
  call.op = "format_cluster_results" =>
    LET ids == call.event_ids
        labels == call.labels
        cl == ret.clusters
    IN /\ \A j \in 1..Len(cl) :
            /\ cl[j].cluster_id # -1
            /\ cl[j].cluster_id \in Range(labels)
            /\ cl[j].size = Len(cl[j].event_ids)
            /\ \A k \in 1..Len(cl) : cl[k].cluster_id = cl[j].cluster_id => k = j
            /\ \A x \in 1..MaxEventId :
                 Occurrences(cl[j].event_ids, x) =
                   Cardinality({i \in 1..Len(ids) :
                                  ids[i] = x /\ labels[i] = cl[j].cluster_id})
       /\ \A i \in 1..Len(ids) :
            labels[i] # -1 => \E j \in 1..Len(cl) : cl[j].cluster_id = labels[i]
       /\ ret.noise_count = Occurrences(labels, -1)
       /\ ret.clustered_count + ret.noise_count = Len(ids)
       /\ ret.clustered_count = SumSizes(cl)

\* C6 witness: noise and two clusters, one event id given twice
C6_Witness ==
  /\ call.op = "format_cluster_results"
  /\ call.event_ids = <<1, 2, 1>>
  /\ call.labels = <<1, -1, 0>>
  /\ Len(ret.clusters) = 2
  /\ ret.noise_count = 1

C8_TranslateFlag ==
  call.op = "detect_and_translate" =>
    LET english == call.detect_raises \/ call.detected = "en"
    IN /\ (english \/ call.translate_raises) =>
            /\ ~ret.translated
            /\ ret.translated_text = call.text
       /\ call.detect_raises => ret.original_language = "en"
       /\ ret.translated =>
            /\ ~english
            /\ ret.original_language # "en"
            /\ ~call.translate_raises
            /\ ret.translated_text = call.translation
       /\ ret.original_text = call.text

\* C8 witness: English text, for which the translation call would have
\* returned another text
C8_Witness ==
  /\ call.op = "detect_and_translate"
  /\ call.text # <<>>
  /\ ~call.detect_raises /\ call.detected = "en"
  /\ ~call.translate_raises /\ call.translation # call.text
  /\ ~ret.translated
  /\ ret.translated_text = call.text

(***************************************************************************)
(* C9 as stated: prepare_features reduces exactly when reduction is        *)
(* requested, the combined feature count exceeds the component count and   *)
(* the sample count exceeds it; otherwise the combined matrix is returned  *)
(* unreduced and no reduction is attempted.  Violated: the code tests the  *)
(* sample count only, so with more than 50 samples of at most 50 features  *)
(* the reduction is attempted (and the PCA call raises).                   *)
(***************************************************************************)
C9_ReduceIffEnoughFeaturesAndSamples ==
  call.op = "prepare_features" =>
    LET cols == IF call.fcols > 0 /\ call.rows > 0
                  THEN call.vcols + call.fcols ELSE call.vcols
        reduce == /\ call.use_pca
                  /\ cols > call.n_components
                  /\ call.rows > call.n_components
    IN /\ ret.pca_attempted <=> reduce
       /\ reduce => ~ret.raised /\ ret.rows = call.rows
                    /\ ret.cols = call.n_components
       /\ ~reduce => ~ret.raised /\ ret.rows = call.rows /\ ret.cols = cols

(***************************************************************************)
(* C11 as stated: every database connection opened by                      *)
(* process_event_embedding or find_events_without_embeddings is closed by  *)
(* the time the call returns, on every path, so the number of open         *)
(* connections is zero between calls, that is whenever neither function    *)
(* is running (conns counts the connections opened and not closed by a     *)
(* close() call; stated for the worker that has not been interrupted and   *)
(* has not died).  Violated: the 'event not found' return of               *)
(* process_event_embedding closes nothing, its except block does not       *)
(* reach conn.close() when conn.rollback() raises, and the except block    *)
(* of find_events_without_embeddings closes nothing.                       *)
(***************************************************************************)
C11_NoOpenConnections ==
  (calling = NoCall /\ pc \notin {"stopped", "crashed"}) => conns = 0

\* the processing of event e can succeed: no call made for it raises
processable(e) ==
  e \notin failing.events \/ ~call_made(db, e, failing.fault)

(***************************************************************************)
(* C12 as stated: with the task queue staying empty and the loop running   *)
(* on, every event that lacks an embedding and whose processing can        *)
(* succeed eventually has a non-null embedding, even when other events     *)
(* lacking embeddings fail on every attempt (in SpecScan every event       *)
(* lacks an embedding at the start and a stored embedding stays).          *)
(* Violated: the scan returns the 50 newest events lacking an embedding;   *)
(* when 50 newer events fail on every attempt every scan returns those 50  *)
(* and an older event is never processed.                                  *)
(***************************************************************************)
C12_ProcessableEventuallyEmbedded ==
  <>(\A e \in ScanEvents : processable(e) => ~db[e].isnull)

====
